---------------------------- MODULE Spec2Model ----------------------------
(***************************************************************************)
(* GuardianJS: the Agent (load / get), the collection round               *)
(* (computeBrowserSignals and its signal sources) and the canonical       *)
(* hasher (canonicalize / stableHash / normalizeString), the timing probe  *)
(* (getPerformanceTiming) and the asynchronous utilities (awaitIfAsync,    *)
(* mapWithBreaks).                                                         *)
(*                                                                         *)
(* JavaScript runs one job at a time.  An action of this model is one job:*)
(* a synchronous run of code from a call or a resumption up to the next    *)
(* await or return; the two loops (getPerformanceTiming, mapWithBreaks)    *)
(* are run one iteration at a step, with nothing else in between unless    *)
(* the loop awaits. Promise reactions are FIFO lists and resumptions go    *)
(* through the microtask queue `mq`; host promises (requestAdapter,        *)
(* requestMediaKeySystemAccess) settle in tasks of their own.              *)
(*                                                                         *)
(* Strings are sequences of UTF-16 code units, 32-bit words are pairs      *)
(* <<high 16 bits, low 16 bits>>.                                          *)
(***************************************************************************)
EXTENDS Integers, Sequences, FiniteSets, TLC

(***************************************************************************)
(* 32-bit arithmetic of stableHash                                         *)
(***************************************************************************)

\* F applied to the value of e, which is computed once:  const x = e; F(x)
Bind(e, F(_)) == CHOOSE r \in {F(x) : x \in {e}} : TRUE

W16 == 65536

RECURSIVE XorN(_, _, _)
\* a ^ b on the low n bits
XorN(a, b, n) ==
  IF n = 0 THEN 0
  ELSE (((a % 2) + (b % 2)) % 2) + 2 * XorN(a \div 2, b \div 2, n - 1)

\* a ^ b for two 4-bit numbers, tabulated
XorNibble == [a \in 0..15 |-> [b \in 0..15 |-> XorN(a, b, 4)]]

\* a ^ b on 16-bit numbers, nibble by nibble
Xor16(a, b) ==
  IF b = 0 THEN a
  ELSE XorNibble[a % 16][b % 16]
       + 16 * XorNibble[(a \div 16) % 16][(b \div 16) % 16]
       + 256 * XorNibble[(a \div 256) % 16][(b \div 256) % 16]
       + 4096 * XorNibble[a \div 4096][b \div 4096]

\* a ^ b on 32-bit words
Xor32(a, b) == <<Xor16(a[1], b[1]), Xor16(a[2], b[2])>>

\* the 32-bit product of two 16-bit numbers, as a word
Mul16(x, y) ==
  LET p0 == (x % 256) * y
      p1 == (x \div 256) * y
      s  == p0 + ((p1 % 256) * 256)
  IN  <<((p1 \div 256) + (s \div W16)) % W16, s % W16>>

\* a multiplication that answers with its first factor
ImulFirstFactor(a, b) == a

\* Math.imul(a, b): the low 32 bits of the product
Imul(a, b) ==
  LET m == Mul16(a[2], b[2])
  IN  <<(m[1] + Mul16(a[1], b[2])[2] + Mul16(a[2], b[1])[2]) % W16, m[2]>>

\* w >>> 16
Shr16(w) == <<0, w[1]>>

\* w >>> 13
Shr13(w) == <<w[1] \div 8192, ((w[1] % 8192) * 8) + (w[2] \div 8192)>>

\* the literals of stableHash
SeedH1 == <<57005, 48879>>      \* 0xdeadbeef
SeedH2 == <<16838, 52823>>      \* 0x41c6ce57
MulA1  == <<40503, 31153>>      \* 2654435761
MulA2  == <<24373, 25749>>      \* 1597334677
MulF1  == <<34283, 51819>>      \* 2246822507
MulF2  == <<49842, 44597>>      \* 3266489909

\* a hexadecimal digit in upper case
HexDigitUpper(d) == IF d < 10 THEN 48 + d ELSE 55 + d

\* a digit of Number.prototype.toString(16): lower case
HexDigit(d) == IF d < 10 THEN 48 + d ELSE 87 + d

RECURSIVE StripZeros(_)
StripZeros(ds) ==
  IF Len(ds) > 1 /\ ds[1] = 0 THEN StripZeros(Tail(ds)) ELSE ds

\* (w >>> 0).toString(16): the digits of the unsigned value, no leading zeros
ToString16(w) ==
  LET nib == << w[1] \div 4096, (w[1] \div 256) % 16, (w[1] \div 16) % 16, w[1] % 16,
                w[2] \div 4096, (w[2] \div 256) % 16, (w[2] \div 16) % 16, w[2] % 16 >>
      ds  == StripZeros(nib)
  IN  [i \in 1..Len(ds) |-> HexDigit(ds[i])]

\* the digits as they are, not padded
PadStartNone(s, n) == s

\* s.padStart(n, '0')
PadStart(s, n) ==
  IF Len(s) >= n THEN s ELSE [i \in 1..(n - Len(s)) |-> 48] \o s

\* one round of the for loop of stableHash: the code unit ch folded into <<h1, h2>>
HashStep(h, ch) ==
  << Imul(Xor32(h[1], <<0, ch>>), MulA1), Imul(Xor32(h[2], <<0, ch>>), MulA2) >>

RECURSIVE HashLoop(_, _, _, _)
\* the for loop of stableHash over json[lo..hi], from <<h1, h2>>: the rounds
\* in order, the first half before the second
HashLoop(json, lo, hi, h) ==
  IF lo > hi THEN h
  ELSE IF lo = hi THEN HashStep(h, json[lo])
  ELSE LET mid == (lo + hi) \div 2
       IN  CHOOSE r \in {HashLoop(json, mid + 1, hi, x) :
                           x \in {HashLoop(json, lo, mid, h)}} : TRUE

\* h1 and h2 of stableHash after the loop and the two mixing lines, on the
\* string it hashes (value itself, or canonicalize(value))
HashLanes(json) ==
  LET len == <<0, Len(json)>>
      h   == HashLoop(json, 1, Len(json), << Xor32(SeedH1, len), Xor32(SeedH2, len) >>)
      h1  == Xor32(Imul(Xor32(h[1], Shr16(h[1])), MulF1),
                   Imul(Xor32(h[2], Shr13(h[2])), MulF2))
      h2  == Xor32(Imul(Xor32(h[2], Shr16(h[2])), MulF1),
                   Imul(Xor32(h1, Shr13(h1)), MulF2))
  IN  <<h1, h2>>

\* hi + lo: each lane as (h >>> 0).toString(16).padStart(8, '0')
LanesToHex(lanes) == PadStart(ToString16(lanes[1]), 8) \o PadStart(ToString16(lanes[2]), 8)

\* stableHash from  let h1 = ...  on
HashString(json) == Bind(HashLanes(json), LAMBDA lanes : LanesToHex(lanes))

(***************************************************************************)
(* JavaScript values                                                        *)
(*   [t |-> "undef"], [t |-> "null"], [t |-> "fn"] (a function),            *)
(*   [t |-> "bool", v |-> b], [t |-> "num", v |-> n] (n an integer), NaN,   *)
(*   [t |-> "str", v |-> code units], [t |-> "arr", v |-> <<values>>],      *)
(*   [t |-> "obj", v |-> << [k |-> key, v |-> value], ... >>] with its     *)
(*   properties in insertion order and distinct keys,                       *)
(*   [t |-> "tojson", v |-> code units]: an object whose toJSON method      *)
(*   returns that string (a Date is one).                                   *)
(***************************************************************************)

Undef == [t |-> "undef"]
Null == [t |-> "null"]
Fn == [t |-> "fn"]
Bool(b) == [t |-> "bool", v |-> b]
Num(n) == [t |-> "num", v |-> n]
Str(s) == [t |-> "str", v |-> s]
Arr(a) == [t |-> "arr", v |-> a]
Obj(ps) == [t |-> "obj", v |-> ps]
WithToJSON(s) == [t |-> "tojson", v |-> s]
NaN == [t |-> "nan"]

\* a JSON.stringify result that is undefined, not a string (no string holds
\* a negative code unit)
NoString == <<-1>>

RECURSIVE LexLess(_, _)
\* a < b for strings: by UTF-16 code units, the order of Array.prototype.sort()
LexLess(a, b) ==
  IF Len(b) = 0 THEN FALSE
  ELSE IF Len(a) = 0 THEN TRUE
  ELSE IF a[1] # b[1] THEN a[1] < b[1]
  ELSE LexLess(Tail(a), Tail(b))

IsDigits(k) == \A i \in 1..Len(k) : k[i] >= 48 /\ k[i] <= 57

\* a canonical array index ("0", "7", "10"; not "01"): the keys an object
\* enumerates first, in ascending numeric order (OrdinaryOwnPropertyKeys)
IsArrayIndex(k) ==
  /\ Len(k) >= 1
  /\ Len(k) <= 9
  /\ IsDigits(k)
  /\ (Len(k) > 1 => k[1] # 48)

NumLess(a, b) == Len(a) < Len(b) \/ (Len(a) = Len(b) /\ LexLess(a, b))

RECURSIVE InsertBy(_, _, _)
\* p put into the sorted sequence ps, before the first element it precedes
InsertBy(Less(_, _), p, ps) ==
  IF Len(ps) = 0 THEN <<p>>
  ELSE IF Less(p.k, ps[1].k) THEN <<p>> \o ps
  ELSE <<ps[1]>> \o InsertBy(Less, p, Tail(ps))

RECURSIVE SortBy(_, _)
SortBy(Less(_, _), ps) ==
  IF Len(ps) = 0 THEN <<>>
  ELSE InsertBy(Less, ps[1], SortBy(Less, Tail(ps)))

\* the properties of the object built by  sorted[k] = val[k]  for the keys in
\* the order ks: index keys first, ascending, then the others as inserted
OwnKeysOrder(ps) ==
  SortBy(NumLess, SelectSeq(ps, LAMBDA p : IsArrayIndex(p.k)))
    \o SelectSeq(ps, LAMBDA p : ~IsArrayIndex(p.k))

\* replacer(_key, val) on an object: a copy with the keys of
\* Object.keys(val).sort()
replacerUnsorted(ps) == OwnKeysOrder(ps)

replacer(ps) == OwnKeysOrder(SortBy(LexLess, ps))

RECURSIVE DecDigits(_)
DecDigits(n) ==
  IF n < 10 THEN <<48 + n>> ELSE DecDigits(n \div 10) \o <<48 + (n % 10)>>

\* Number::toString of an integer
NumberToString(n) == IF n < 0 THEN <<45>> \o DecDigits(0 - n) ELSE DecDigits(n)

\* one code unit inside a JSON string literal (QuoteJSONString)
QuoteUnit(c) ==
  IF c = 34 THEN <<92, 34>>
  ELSE IF c = 92 THEN <<92, 92>>
  ELSE IF c = 8 THEN <<92, 98>>
  ELSE IF c = 9 THEN <<92, 116>>
  ELSE IF c = 10 THEN <<92, 110>>
  ELSE IF c = 12 THEN <<92, 102>>
  ELSE IF c = 13 THEN <<92, 114>>
  ELSE IF c < 32 THEN <<92, 117, 48, 48, HexDigit(c \div 16), HexDigit(c % 16)>>
  ELSE <<c>>

RECURSIVE QuoteUnits(_)
QuoteUnits(s) == IF Len(s) = 0 THEN <<>> ELSE QuoteUnit(s[1]) \o QuoteUnits(Tail(s))

Quote(s) == <<34>> \o QuoteUnits(s) \o <<34>>

RECURSIVE Join(_)
\* the strings of parts joined by ","
Join(parts) ==
  IF Len(parts) = 0 THEN <<>>
  ELSE IF Len(parts) = 1 THEN parts[1]
  ELSE parts[1] \o <<44>> \o Join(Tail(parts))

RECURSIVE SerializeJSONProperty(_)
\* JSON.stringify(value, replacer) on one value: toJSON first, then the
\* replacer, then the serialization; NoString where JSON.stringify omits it
SerializeJSONProperty(val) ==
  LET v1 == IF val.t = "tojson" THEN Str(val.v) ELSE val
      v2 == IF v1.t = "obj" THEN Obj(replacer(v1.v)) ELSE v1
  IN  CASE v2.t = "null" -> <<110, 117, 108, 108>>
        [] v2.t = "bool" -> IF v2.v THEN <<116, 114, 117, 101>>
                                    ELSE <<102, 97, 108, 115, 101>>
        [] v2.t = "str"  -> Quote(v2.v)
        [] v2.t = "num"  -> NumberToString(v2.v)
        [] v2.t = "nan"  -> <<110, 117, 108, 108>>
        [] v2.t = "arr"  ->
             LET el(i) == LET e == SerializeJSONProperty(v2.v[i])
                          IN  IF e = NoString THEN <<110, 117, 108, 108>> ELSE e
             IN  <<91>> \o Join([i \in 1..Len(v2.v) |-> el(i)]) \o <<93>>
        [] v2.t = "obj"  ->
             LET ms == [i \in 1..Len(v2.v) |->
                          [k |-> v2.v[i].k, s |-> SerializeJSONProperty(v2.v[i].v)]]
                 kept == SelectSeq(ms, LAMBDA m : m.s # NoString)
             IN  <<123>> \o Join([i \in 1..Len(kept) |->
                                    Quote(kept[i].k) \o <<58>> \o kept[i].s]) \o <<125>>
        [] OTHER -> NoString

canonicalize(value) == SerializeJSONProperty(value)

\* what stableHash throws on: json.length of undefined
TypeError == <<-2>>

\* stableHash that hashes String(value) of a primitive, not its JSON text
stableHashOfString(value) ==
  Bind(CASE value.t = "str" -> value.v
         [] value.t = "nan" -> <<78, 97, 78>>
         [] OTHER -> canonicalize(value),
       LAMBDA json : IF json = NoString THEN TypeError ELSE HashString(json))

stableHash(value) ==
  Bind(IF value.t = "str" THEN value.v ELSE canonicalize(value),
       LAMBDA json : IF json = NoString THEN TypeError ELSE HashString(json))

(***************************************************************************)
(* Property names and host strings, as code units                          *)
(***************************************************************************)

K_vendor == <<118, 101, 110, 100, 111, 114>>   \* "vendor"
K_renderer == <<114, 101, 110, 100, 101, 114, 101, 114>>   \* "renderer"
K_vendorUnmasked == <<118, 101, 110, 100, 111, 114, 85, 110, 109, 97, 115, 107, 101, 100>>   \* "vendorUnmasked"
K_rendererUnmasked == <<114, 101, 110, 100, 101, 114, 101, 114, 85, 110, 109, 97, 115, 107, 101, 100>>   \* "rendererUnmasked"
K_version == <<118, 101, 114, 115, 105, 111, 110>>   \* "version"
K_shadingLanguageVersion == <<115, 104, 97, 100, 105, 110, 103, 76, 97, 110, 103, 117, 97, 103, 101, 86, 101, 114, 115, 105, 111, 110>>   \* "shadingLanguageVersion"
K_extensions == <<101, 120, 116, 101, 110, 115, 105, 111, 110, 115>>   \* "extensions"
K_supported == <<115, 117, 112, 112, 111, 114, 116, 101, 100>>   \* "supported"
K_isFallbackAdapter == <<105, 115, 70, 97, 108, 108, 98, 97, 99, 107, 65, 100, 97, 112, 116, 101, 114>>   \* "isFallbackAdapter"
K_architecture == <<97, 114, 99, 104, 105, 116, 101, 99, 116, 117, 114, 101>>   \* "architecture"
K_device == <<100, 101, 118, 105, 99, 101>>   \* "device"
K_widevineSupported == <<119, 105, 100, 101, 118, 105, 110, 101, 83, 117, 112, 112, 111, 114, 116, 101, 100>>   \* "widevineSupported"
K_precision == <<112, 114, 101, 99, 105, 115, 105, 111, 110>>   \* "precision"
K_baseline == <<98, 97, 115, 101, 108, 105, 110, 101>>   \* "baseline"
K_acos == <<97, 99, 111, 115>>   \* "acos"
K_exp == <<101, 120, 112>>   \* "exp"
K_userAgent == <<117, 115, 101, 114, 65, 103, 101, 110, 116>>   \* "userAgent"
K_gpuVendor == <<103, 112, 117, 86, 101, 110, 100, 111, 114>>   \* "gpuVendor"
K_gpuRenderer == <<103, 112, 117, 82, 101, 110, 100, 101, 114, 101, 114>>   \* "gpuRenderer"
K_hardwareConcurrency == <<104, 97, 114, 100, 119, 97, 114, 101, 67, 111, 110, 99, 117, 114, 114, 101, 110, 99, 121>>   \* "hardwareConcurrency"
K_deviceMemory == <<100, 101, 118, 105, 99, 101, 77, 101, 109, 111, 114, 121>>   \* "deviceMemory"
K_math == <<109, 97, 116, 104>>   \* "math"
K_eme == <<101, 109, 101>>   \* "eme"
K_timing == <<116, 105, 109, 105, 110, 103>>   \* "timing"
K_audio == <<97, 117, 100, 105, 111>>   \* "audio"
V_userAgent == <<77, 111, 122, 105, 108, 108, 97, 47, 53, 46, 48>>   \* "Mozilla/5.0"
V_glVersion == <<87, 101, 98, 71, 76, 32, 49, 46, 48>>   \* "WebGL 1.0"
V_glVendor == <<87, 101, 98, 75, 105, 116>>   \* "WebKit"
V_glRenderer == <<87, 101, 98, 75, 105, 116, 32, 87, 101, 98, 71, 76>>   \* "WebKit WebGL"
V_glVendorUnmasked == <<32, 65, 112, 112, 108, 101, 32, 73, 110, 99, 46, 32>>   \* " Apple Inc. "
V_glRendererUnmasked == <<65, 112, 112, 108, 101, 32, 77, 49>>   \* "Apple M1"
V_glsl == <<71, 76, 83, 76, 32, 69, 83, 32, 49, 46, 48>>   \* "GLSL ES 1.0"
V_ext == <<69, 88, 84, 95, 98, 108, 101, 110, 100, 95, 109, 105, 110, 109, 97, 120>>   \* "EXT_blend_minmax"
V_gpuVendor == <<97, 112, 112, 108, 101>>   \* "apple"
V_gpuArch == <<99, 111, 109, 109, 111, 110, 45, 51>>   \* "common-3"
V_eight == <<56>>   \* "8"

P(k, v) == [k |-> k, v |-> v]

\* obj[key], undefined when the object has no such property
GetProp(obj, key) ==
  IF obj.t # "obj" \/ ~(\E i \in 1..Len(obj.v) : obj.v[i].k = key) THEN Undef
  ELSE obj.v[CHOOSE i \in 1..Len(obj.v) : obj.v[i].k = key].v

(***************************************************************************)
(* normalizeString                                                         *)
(***************************************************************************)

\* the code units String.prototype.trim removes: WhiteSpace and LineTerminator
IsWhiteSpace(c) ==
  \/ c \in {9, 10, 11, 12, 13, 32, 160, 5760, 8232, 8233, 8239, 8287, 12288, 65279}
  \/ c \in 8192..8202

RECURSIVE TrimStart(_)
TrimStart(s) == IF Len(s) > 0 /\ IsWhiteSpace(s[1]) THEN TrimStart(Tail(s)) ELSE s

RECURSIVE TrimEnd(_)
TrimEnd(s) ==
  IF Len(s) > 0 /\ IsWhiteSpace(s[Len(s)]) THEN TrimEnd(SubSeq(s, 1, Len(s) - 1)) ELSE s

Trim(s) == TrimEnd(TrimStart(s))

\* toLowerCase of one code unit of Basic Latin or Latin-1: A-Z and the
\* capitals U+00C0..U+00DE (U+00D7 is the multiplication sign) are 32 below
\* their small letters; the other units of these blocks map to themselves
LowerUnit(c) ==
  IF (c >= 65 /\ c <= 90) \/ (c >= 192 /\ c <= 222 /\ c # 215) THEN c + 32 ELSE c

\* String.prototype.toLowerCase
ToLowerCase(s) == [i \in 1..Len(s) |-> LowerUnit(s[i])]

\* normalizeString that lower-cases and does not trim
normalizeStringUntrimmed(input) ==
  IF input.t # "str" \/ Len(input.v) = 0 THEN Undef
  ELSE Str(ToLowerCase(input.v))

\* normalizeString(input): input is a string value, null or undefined
normalizeString(input) ==
  IF input.t # "str" \/ Len(input.v) = 0 THEN Undef
  ELSE LET trimmed == ToLowerCase(Trim(input.v))
       IN  IF Len(trimmed) = 0 THEN Undef ELSE Str(trimmed)

(***************************************************************************)
(* The execution host: what each global and host API answers, fixed for a  *)
(* run.                                                                     *)
(*   nav    navigator: "absent", "full", or "odd" (no userAgent, a          *)
(*          hardwareConcurrency that is not a number)                       *)
(*   gpu    navigator.gpu: "none", or what requestAdapter() settles with:  *)
(*          "adapter", "null", "reject"                                     *)
(*   rmksa  navigator.requestMediaKeySystemAccess: "none" (no function),    *)
(*          or how its promise settles: "resolve", "reject" (with a         *)
(*          NotSupportedError: the key system is not supported), "fault"    *)
(*          (rejected with another error, a SecurityError or an             *)
(*          InvalidStateError), "never"                                     *)
(*   doc    document: "absent", "nopolicy", or a permissions policy that    *)
(*          "allows" or "denies" encrypted-media                            *)
(*   win    window: "absent", "secure", "insecure" (isSecureContext false), *)
(*          "legacy" (no isSecureContext, no performance.now)               *)
(*   basics, ext, audio   what the WebGL and audio sources return           *)
(***************************************************************************)

HostFields ==
  [nav : {"absent", "full", "odd"},
   gpu : {"none", "adapter", "null", "reject"},
   rmksa : {"none", "resolve", "reject", "fault", "never"},
   doc : {"absent", "nopolicy", "allows", "denies"},
   win : {"absent", "secure", "insecure", "legacy"},
   basics : {"sentinel", "record"},
   ext : {"sentinel", "record", "nolist"},
   audio : {"undefined", "number", "thunk", "throw"}]

\* a host without navigator has neither of its APIs; a worker-like host
\* without window has no document
AllHosts ==
  {h \in HostFields :
     /\ (h.nav = "absent" => h.gpu = "none" /\ h.rmksa = "none")
     /\ (h.win = "absent" => h.doc = "absent")}

\* the hosts of the agent's life cycle: every outcome of every source, the
\* WebGL payloads and the navigator fields all known or all unknown together
Hosts ==
  {h \in AllHosts :
     /\ h.nav # "odd"
     /\ h.rmksa # "fault"
     /\ h.ext # "nolist"
     /\ (h.basics = "record") = (h.ext = "record")
     /\ (h.basics = "record") = (h.nav = "full")
     /\ h.doc \in {"absent", "allows", "denies"}
     /\ (h.doc = "absent") = (h.win = "absent")
     /\ h.win \in {"absent", "secure"}}

(***************************************************************************)
(* Signal sources                                                           *)
(***************************************************************************)

\* the navigator object of a host
NavObject(h) ==
  IF h.nav = "full"
    THEN Obj(<< P(K_userAgent, Str(V_userAgent)), P(K_hardwareConcurrency, Num(8)),
                P(K_deviceMemory, Num(4)) >>)
    ELSE Obj(<< P(K_hardwareConcurrency, Str(V_eight)) >>)

\* getNavigatorSafe(): navigator, or undefined
getNavigatorSafe(h) == IF h.nav = "absent" THEN Undef ELSE NavObject(h)

\* getWindowSafe(): whether window is there
getWindowSafe(h) == h.win # "absent"

\* getWebGlBasics: a number when WebGL is unavailable, else the context's strings
getWebGlBasics(h) ==
  IF h.basics = "sentinel" THEN Num(-1)
  ELSE Obj(<< P(K_version, Str(V_glVersion)), P(K_vendor, Str(V_glVendor)),
              P(K_renderer, Str(V_glRenderer)),
              P(K_vendorUnmasked, Str(V_glVendorUnmasked)),
              P(K_rendererUnmasked, Str(V_glRendererUnmasked)),
              P(K_shadingLanguageVersion, Str(V_glsl)) >>)

\* getWebGlExtensions: a number when unavailable, else the extensions payload
getWebGlExtensions(h) ==
  CASE h.ext = "sentinel" -> Num(-2)
    [] h.ext = "record"   -> Obj(<< P(K_extensions, Arr(<<Str(V_ext)>>)) >>)
    [] OTHER              -> Obj(<< P(K_extensions, Null) >>)

\* getWebGpuInfo up to its await: TRUE when it calls gpu.requestAdapter()
\* (navigator there, gpu there, requestAdapter a function)
WebGpuRequests(h) == h.nav # "absent" /\ h.gpu # "none"

NotSupported == Obj(<< P(K_supported, Bool(FALSE)) >>)

\* getWebGpuInfo after  await gpu.requestAdapter()
WebGpuAfter(h) ==
  CASE h.gpu = "reject" -> NotSupported
    [] h.gpu = "null"   ->
         Obj(<< P(K_supported, Bool(TRUE)), P(K_isFallbackAdapter, Bool(TRUE)) >>)
    [] OTHER ->
         Obj(<< P(K_supported, Bool(TRUE)), P(K_isFallbackAdapter, Bool(FALSE)),
                P(K_vendor, Str(V_gpuVendor)), P(K_architecture, Str(V_gpuArch)),
                P(K_device, Undef) >>)

EmeUnknown == Obj(<<>>)
Widevine(b) == Obj(<< P(K_widevineSupported, Bool(b)) >>)

\* the gates of getEmeInfo: the permissions policy denies encrypted-media, or
\* the context is known not to be secure
EmePolicyDenies(h) == h.doc = "denies"
EmeInsecure(h) == h.win = "insecure"

\* getEmeInfo that probes without looking at its gates
EmeRequestsUngated(h) == h.nav # "absent" /\ h.rmksa # "none"

\* getEmeInfo up to its await: TRUE when it calls requestMediaKeySystemAccess
EmeRequests(h) ==
  /\ ~EmePolicyDenies(h)
  /\ ~EmeInsecure(h)
  /\ h.nav # "absent"
  /\ h.rmksa # "none"

\* getEmeInfo after  await nav.requestMediaKeySystemAccess(...): true when the
\* promise is fulfilled, false in the catch of any rejection
EmeAfter(h) == IF h.rmksa = "resolve" THEN Widevine(TRUE) ELSE Widevine(FALSE)

\* getMathFingerprint: a record of numbers (two of its entries, scaled)
getMathFingerprint == Obj(<< P(K_acos, Num(14455)), P(K_exp, Num(27182)) >>)

\* getAudioFingerprint: a number, a lazy thunk, or nothing
getAudioFingerprint(h) ==
  CASE h.audio = "number" -> Num(1245)
    [] h.audio = "thunk"  -> Fn
    [] OTHER              -> Undef

\* the number the thunk of the audio source resolves to
ThunkResult(h) == Num(1245)

\* a source that breaks its contract and throws
AudioThrows(h) == h.audio = "throw"

\* what it throws
AudioError == [t |-> "error", v |-> "audio"]

\* one millisecond, in the unit of the performance.now() readings
OneMs == 1000

\* the readings performance.now() gives, one per call
PerfReadings == <<0, 5, 5, 105, 110, 110>>

RECURSIVE PerfLoop(_, _, _, _)
\* the loop of getPerformanceTiming from reading i on, curr = readings[i - 1]
PerfLoop(readings, i, min, max) ==
  IF i > Len(readings) THEN <<min, max>>
  ELSE LET prev == readings[i - 1]
           curr == readings[i]
           diff == curr - prev
       IN  IF prev < curr
             THEN IF diff > min
                    THEN PerfLoop(readings, i + 1, min, IF diff < max THEN diff ELSE max)
                    ELSE IF diff < min
                           THEN PerfLoop(readings, i + 1, diff, min)
                           ELSE PerfLoop(readings, i + 1, min, max)
             ELSE PerfLoop(readings, i + 1, min, max)

\* getPerformanceTiming(): undefined without window.performance.now
getPerformanceTiming(h) ==
  IF h.win \in {"absent", "legacy"} THEN Undef
  ELSE LET r == PerfLoop(PerfReadings, 2, OneMs, OneMs)
       IN  Obj(<< P(K_precision, Num(r[1])), P(K_baseline, Num(r[2])) >>)

(***************************************************************************)
(* The signal bag and the anchor                                            *)
(***************************************************************************)

\* JavaScript's ToBoolean
IsTruthy(v) ==
  CASE v.t \in {"undef", "null", "nan"} -> FALSE
    [] v.t = "bool" -> v.v
    [] v.t = "num"  -> v.v # 0
    [] v.t = "str"  -> Len(v.v) > 0
    [] OTHER        -> TRUE

\* typeof v === 'number'
IsNumber(v) == v.t \in {"num", "nan"}

\* x ?? undefined
OrUndefined(v) == IF v.t = "null" THEN Undef ELSE v

SignalKeys ==
  {"userAgent", "hardwareConcurrency", "deviceMemory", "webgl", "webgExtensions",
   "audioFingerprint", "mathFingerprint", "webgpu", "eme", "performanceTiming"}

\* the object literal  signals  of computeBrowserSignals, with the webgl and
\* webgExtensions it derives from the two WebGL payloads
SignalsLiteral(nav, basics, extensions, webgpu, eme, math, audio, timing) ==
  LET webgl ==
        IF ~IsNumber(basics)
          THEN Obj(<< P(K_version, GetProp(basics, K_version)),
                      P(K_vendor, GetProp(basics, K_vendor)),
                      P(K_renderer, GetProp(basics, K_renderer)),
                      P(K_vendorUnmasked, GetProp(basics, K_vendorUnmasked)),
                      P(K_rendererUnmasked, GetProp(basics, K_rendererUnmasked)),
                      P(K_shadingLanguageVersion, GetProp(basics, K_shadingLanguageVersion)),
                      P(K_extensions,
                        IF ~IsNumber(extensions)
                          THEN OrUndefined(GetProp(extensions, K_extensions))
                          ELSE Undef) >>)
          ELSE Undef
      webgExtensions == IF ~IsNumber(extensions) THEN extensions ELSE Undef
      hc == GetProp(nav, K_hardwareConcurrency)
      dm == GetProp(nav, K_deviceMemory)
  IN  [userAgent |-> IF IsTruthy(GetProp(nav, K_userAgent))
                       THEN GetProp(nav, K_userAgent) ELSE Str(<<>>),
       hardwareConcurrency |-> IF IsNumber(hc) THEN hc ELSE Undef,
       deviceMemory |-> IF IsNumber(dm) THEN dm ELSE Undef,
       webgl |-> webgl,
       webgExtensions |-> webgExtensions,
       audioFingerprint |-> audio,
       mathFingerprint |-> math,
       webgpu |-> webgpu,
       eme |-> eme,
       performanceTiming |-> timing]

\* a bag that holds a key only when its value is known
MakeSignalsOmittingUnknown(nav, basics, extensions, webgpu, eme, math, audio, timing) ==
  LET all == SignalsLiteral(nav, basics, extensions, webgpu, eme, math, audio, timing)
  IN  [k \in {n \in DOMAIN all : all[n].t # "undef"} |-> all[k]]

\* the bag computeBrowserSignals resolves with:  return signals
MakeSignals(nav, basics, extensions, webgpu, eme, math, audio, timing) ==
  SignalsLiteral(nav, basics, extensions, webgpu, eme, math, audio, timing)

\* a ?? b on property reads
Coalesce(a, b) == IF a.t \in {"undef", "null"} THEN b ELSE a

\* computeAnchor(signals): the fixed set of anchor keys, strings normalized,
\* unknown values absent (undefined); a function never enters an anchor
computeAnchor(signals) ==
  Obj(<< P(K_gpuVendor,
           normalizeString(Coalesce(GetProp(signals.webgl, K_vendorUnmasked),
                                    GetProp(signals.webgl, K_vendor)))),
         P(K_gpuRenderer,
           normalizeString(Coalesce(GetProp(signals.webgl, K_rendererUnmasked),
                                    GetProp(signals.webgl, K_renderer)))),
         P(K_hardwareConcurrency, signals.hardwareConcurrency),
         P(K_deviceMemory, signals.deviceMemory),
         P(K_math, signals.mathFingerprint),
         P(K_eme, GetProp(signals.eme, K_widevineSupported)),
         P(K_timing, GetProp(signals.performanceTiming, K_precision)),
         P(K_audio, IF IsNumber(signals.audioFingerprint)
                      THEN signals.audioFingerprint ELSE Undef) >>)

\* a visitorId that is undefined, not a string
NoId == <<-1>>

\* every bag a host of the agent's life cycle can produce
HostBags ==
  UNION {{MakeSignals(getNavigatorSafe(h), getWebGlBasics(h), getWebGlExtensions(h),
                      w, e, getMathFingerprint, getAudioFingerprint(h),
                      getPerformanceTiming(h)) :
            w \in {NotSupported, WebGpuAfter(h)}, e \in {EmeUnknown, EmeAfter(h)}} :
         h \in Hosts}

\* the value a table of <<key, value>> pairs holds for key, else other
LookupOr(table, key, other) ==
  Bind({p \in table : p[1] = key},
       LAMBDA hit : IF hit = {} THEN other ELSE (CHOOSE p \in hit : TRUE)[2])

\* stableHash on the anchors of those bags, computed once
AnchorHashes == {<<a, stableHash(a)>> : a \in {computeAnchor(b) : b \in HostBags}}

\* stableHash(anchor)
HashAnchor(anchor) == LookupOr(AnchorHashes, anchor, stableHash(anchor))

\* the anchor with its hash
AnchorAndId(anchor) == [anchor |-> anchor, visitorId |-> HashAnchor(anchor)]

\* computeVisitorId(signals): the anchor and its hash; with a lazy audio
\* thunk in the bag the anchor builder answers with a promise, and
\* destructuring a promise binds undefined twice
VisitorIdOf(signals) ==
  IF signals.audioFingerprint.t = "fn"
    THEN [anchor |-> Undef, visitorId |-> NoId]
    ELSE Bind(computeAnchor(signals), LAMBDA anchor : AnchorAndId(anchor))

\* how many thunks computeVisitorId(signals) invokes: the anchor builder
\* invokes a function value it finds in the bag
ThunksInvoked(signals) == IF signals.audioFingerprint.t = "fn" THEN 1 ELSE 0

\* computeVisitorId on the bags of the hosts, computed once
VisitorIds == {<<b, VisitorIdOf(b)>> : b \in HostBags}

\* what  const { anchor, visitorId } = computeVisitorId(signals)  binds
computeVisitorId(signals) == LookupOr(VisitorIds, signals, VisitorIdOf(signals))

(***************************************************************************)
(* State                                                                    *)
(***************************************************************************)

\* how many get() calls a run makes
MaxGets == 2

VARIABLES
  host,            \* the execution host
  pcUser,          \* the caller: "start", "loading" (load() called), "hasAgent"
  agentDebug,      \* the debug option given to load(): undefined or a boolean
  cbs,             \* computeBrowserSignals: its position and its locals
  gpuP,            \* getWebGpuInfo: its promise, and the host's requestAdapter promise
  emeP,            \* getEmeInfo: its promise, and the host's key-system promise
  signalsPromise,  \* the promise load() hands to makeAgent, with its reactions
  mq,              \* the microtask queue
  gets,            \* the get() calls, in call order
  calls,           \* how often each source and host API has been invoked
  console,         \* the get() calls that printed the debug dump, in order
  settled,         \* the get() calls that settled, in order
  thunkCalls,      \* how often the lazy audio thunk has been invoked
  hashIn,          \* the two values given to canonicalize and stableHash (the
                   \* first one to normalizeString)
  hashOut,         \* their canonical strings and digests (n1, n2: what
                   \* normalizeString returned, applied once and twice)
  perf,            \* a call of getPerformanceTiming: its position and locals
  aia,             \* a call of awaitIfAsync: its arguments and what it did
  mwb              \* a call of mapWithBreaks: its arguments, locals and clock

agentVars == <<host, pcUser, agentDebug, cbs, gpuP, emeP, signalsPromise, mq, gets,
               calls, console, settled, thunkCalls>>
hashVars == <<hashIn, hashOut>>
utilVars == <<perf, aia, mwb>>
vars == <<host, pcUser, agentDebug, cbs, gpuP, emeP, signalsPromise, mq, gets,
          calls, console, settled, thunkCalls, hashIn, hashOut, perf, aia, mwb>>

Job(k) == [k |-> k, i |-> 0]
GetJob(i) == [k |-> "get", i |-> i]

NoBag == [none |-> Undef]
NoResult == [visitorId |-> NoId, anchor |-> Undef, signals |-> NoBag, version |-> ""]
\* a result that has not been computed yet
NotYet == <<-3>>
\* a value that has not been computed yet
Pending == [t |-> "pending"]
NoHash ==
  [ca |-> NotYet, cb |-> NotYet, ha |-> NotYet, hb |-> NotYet,
   n1 |-> Pending, n2 |-> Pending]

\* version, from package.json
Version == "0.1.0"

\* the debug option of LoadOptions and GetOptions: not given, true, false
DebugOptions == {Undef, Bool(TRUE), Bool(FALSE)}

NoCalls ==
  [cbs |-> 0, navigator |-> 0, basics |-> 0, extensions |-> 0, webgpu |-> 0,
   requestAdapter |-> 0, eme |-> 0, rmksa |-> 0, math |-> 0, audio |-> 0,
   timing |-> 0]

AgentInit ==
  /\ pcUser = "start"
  /\ agentDebug = Undef
  /\ cbs = [pc |-> "none", nav |-> Undef, basics |-> Undef, extensions |-> Undef,
            webgpu |-> Undef, eme |-> Undef]
  /\ gpuP = [st |-> "none", host |-> "none", value |-> Undef]
  /\ emeP = [st |-> "none", host |-> "none", value |-> Undef]
  /\ signalsPromise = [st |-> "none", value |-> NoBag, waiters |-> <<>>]
  /\ mq = <<>>
  /\ gets = <<>>
  /\ calls = NoCalls
  /\ console = <<>>
  /\ settled = <<>>
  /\ thunkCalls = 0

HashIdle == hashIn = <<Undef, Undef>> /\ hashOut = NoHash

\* getPerformanceTiming not called: min and max as it declares them
PerfIdle ==
  [pc |-> "idle", now |-> "absent", i |-> 0, prev |-> 0, curr |-> 0,
   min |-> OneMs, max |-> OneMs, threw |-> FALSE, result |-> Undef,
   smallest |-> 0, sorted |-> TRUE]

\* awaitIfAsync not called
AiaIdle ==
  [pc |-> "idle", act |-> [kind |-> "value", v |-> Undef, settled |-> FALSE],
   cb |-> "returns", pst |-> "none", log |-> <<>>]

\* mapWithBreaks not called
MwbIdle ==
  [pc |-> "idle", items |-> <<>>, given |-> <<>>, interval |-> 0, i |-> 1,
   results |-> <<>>, last |-> 0, clock |-> 0, calls |-> <<>>, releases |-> <<>>,
   others |-> 0, touched |-> FALSE]

UtilIdle == perf = PerfIdle /\ aia = AiaIdle /\ mwb = MwbIdle

Init == host \in Hosts /\ AgentInit /\ HashIdle /\ UtilIdle

(***************************************************************************)
(* load(options): runs computeBrowserSignals() up to its first await, which *)
(* runs getWebGpuInfo() up to its await, then makeAgent; the promise of     *)
(* load is fulfilled with the Agent as load returns.                        *)
(***************************************************************************)

LoadWith(debug, startRound) ==
  /\ pcUser = "start"
  /\ pcUser' = "loading"
  /\ agentDebug' = debug
  /\ IF startRound
       THEN /\ cbs' = [cbs EXCEPT !.pc = "awaitGpu",
                                  !.nav = getNavigatorSafe(host),
                                  !.basics = getWebGlBasics(host),
                                  !.extensions = getWebGlExtensions(host)]
            /\ signalsPromise' = [signalsPromise EXCEPT !.st = "pending"]
            /\ IF WebGpuRequests(host)
                 THEN /\ gpuP' = [st |-> "pending", host |-> "pending", value |-> Undef]
                      /\ mq' = mq \o <<Job("load")>>
                 ELSE /\ gpuP' = [st |-> "fulfilled", host |-> "none",
                                  value |-> NotSupported]
                      /\ mq' = mq \o <<Job("cbs1"), Job("load")>>
            /\ calls' = [calls EXCEPT !.cbs = @ + 1, !.navigator = @ + 1,
                                      !.basics = @ + 1, !.extensions = @ + 1,
                                      !.webgpu = @ + 1,
                                      !.requestAdapter =
                                         IF WebGpuRequests(host) THEN @ + 1 ELSE @]
       ELSE /\ mq' = mq \o <<Job("load")>>
            /\ UNCHANGED <<cbs, signalsPromise, gpuP, calls>>
  /\ UNCHANGED <<host, emeP, gets, console, settled, thunkCalls, hashVars,
                 utilVars>>

\* load() that leaves the collection round to the first get()
LoadLazy(debug) == LoadWith(debug, FALSE)

Load(debug) == LoadWith(debug, TRUE)

\* the caller's continuation of  await load()
LoadCont ==
  /\ mq # <<>> /\ Head(mq) = Job("load")
  /\ pcUser' = "hasAgent"
  /\ mq' = Tail(mq)
  /\ UNCHANGED <<host, agentDebug, cbs, gpuP, emeP, signalsPromise, gets, calls,
                 console, settled, thunkCalls, hashVars,
                 utilVars>>

(***************************************************************************)
(* The collection round                                                     *)
(***************************************************************************)

\* the host settles the promise of gpu.requestAdapter(), in a task of its own
GpuHostSettle ==
  /\ gpuP.host = "pending"
  /\ mq = <<>>
  /\ gpuP' = [gpuP EXCEPT !.host = "settled"]
  /\ mq' = <<Job("gpu")>>
  /\ UNCHANGED <<host, pcUser, agentDebug, cbs, emeP, signalsPromise, gets, calls,
                 console, settled, thunkCalls, hashVars,
                 utilVars>>

\* getWebGpuInfo after its await: its promise is fulfilled, and
\* computeBrowserSignals, which awaits it, is queued
GpuCont ==
  /\ mq # <<>> /\ Head(mq) = Job("gpu")
  /\ gpuP' = [gpuP EXCEPT !.st = "fulfilled", !.value = WebGpuAfter(host)]
  /\ mq' = Tail(mq) \o <<Job("cbs1")>>
  /\ UNCHANGED <<host, pcUser, agentDebug, cbs, emeP, signalsPromise, gets, calls,
                 console, settled, thunkCalls, hashVars,
                 utilVars>>

\* whether the promise of getEmeInfo() rejects: never, all of it is in try/catch
EmeRejectsWithoutNavigator(h) ==
  ~EmePolicyDenies(h) /\ ~EmeInsecure(h) /\ h.nav = "absent"

EmeRejects(h) == FALSE

\* computeBrowserSignals from  const webgpu = await ...  to  await getEmeInfo():
\* getEmeInfo() runs up to its await
CbsAfterGpu ==
  /\ mq # <<>> /\ Head(mq) = Job("cbs1")
  /\ calls' = [calls EXCEPT !.eme = @ + 1,
                            !.rmksa = IF EmeRequests(host) THEN @ + 1 ELSE @]
  /\ IF EmeRejects(host)
       THEN /\ cbs' = [cbs EXCEPT !.pc = "awaitEme", !.webgpu = gpuP.value]
            /\ emeP' = [st |-> "rejected", host |-> "none", value |-> Undef]
            /\ mq' = Tail(mq) \o <<Job("cbs2")>>
       ELSE /\ cbs' = [cbs EXCEPT !.pc = "awaitEme", !.webgpu = gpuP.value]
            /\ IF EmeRequests(host)
                 THEN /\ emeP' = [st |-> "pending", host |-> "pending", value |-> Undef]
                      /\ mq' = Tail(mq)
                 ELSE /\ emeP' = [st |-> "fulfilled", host |-> "none",
                                  value |-> EmeUnknown]
                      /\ mq' = Tail(mq) \o <<Job("cbs2")>>
  /\ UNCHANGED <<host, pcUser, agentDebug, gpuP, signalsPromise, gets, console,
                 settled, thunkCalls, hashVars,
                 utilVars>>

\* the host settles the promise of requestMediaKeySystemAccess, when it ever does
EmeHostSettle ==
  /\ emeP.host = "pending"
  /\ host.rmksa # "never"
  /\ mq = <<>>
  /\ emeP' = [emeP EXCEPT !.host = "settled"]
  /\ mq' = <<Job("eme")>>
  /\ UNCHANGED <<host, pcUser, agentDebug, cbs, gpuP, signalsPromise, gets, calls,
                 console, settled, thunkCalls, hashVars,
                 utilVars>>

\* getEmeInfo after its await
EmeCont ==
  /\ mq # <<>> /\ Head(mq) = Job("eme")
  /\ emeP' = [emeP EXCEPT !.st = "fulfilled", !.value = EmeAfter(host)]
  /\ mq' = Tail(mq) \o <<Job("cbs2")>>
  /\ UNCHANGED <<host, pcUser, agentDebug, cbs, gpuP, signalsPromise, gets, calls,
                 console, settled, thunkCalls, hashVars,
                 utilVars>>

RECURSIVE GetJobsReversed(_)
\* the jobs of the waiting get() calls, the latest call first
GetJobsReversed(waiters) ==
  IF Len(waiters) = 0 THEN <<>>
  ELSE GetJobsReversed(Tail(waiters)) \o <<GetJob(waiters[1])>>

\* the jobs of the get() calls that await the signals promise, in call order
RECURSIVE GetJobs(_)
GetJobs(waiters) ==
  IF Len(waiters) = 0 THEN <<>> ELSE <<GetJob(waiters[1])>> \o GetJobs(Tail(waiters))

\* computeBrowserSignals from  const eme = await ...  to  return signals, with
\* the audio value it puts in the bag and how often it invokes the thunk
CbsFinishWith(audioFingerprint, thunkInvoked) ==
  /\ mq # <<>> /\ Head(mq) = Job("cbs2")
  /\ emeP.st = "fulfilled"
  /\ ~AudioThrows(host)
  /\ cbs' = [cbs EXCEPT !.pc = "done", !.eme = emeP.value]
  /\ calls' = [calls EXCEPT !.math = @ + 1, !.audio = @ + 1, !.timing = @ + 1]
  /\ signalsPromise' =
       [st |-> "fulfilled",
        value |-> MakeSignals(cbs.nav, cbs.basics, cbs.extensions, cbs.webgpu,
                              emeP.value, getMathFingerprint,
                              audioFingerprint, getPerformanceTiming(host)),
        waiters |-> <<>>]
  /\ mq' = Tail(mq) \o GetJobs(signalsPromise.waiters)
  /\ thunkCalls' = thunkCalls + thunkInvoked
  /\ UNCHANGED <<host, pcUser, agentDebug, gpuP, emeP, gets, console, settled,
                 hashVars, utilVars>>

\* a round that materializes the audio value: it invokes a thunk and awaits it
CbsFinishAwaitingThunk ==
  IF getAudioFingerprint(host).t = "fn"
    THEN CbsFinishWith(ThunkResult(host), 1)
    ELSE CbsFinishWith(getAudioFingerprint(host), 0)

\* const audioFingerprint = getAudioFingerprint(): the value as the source
\* returned it, a thunk not invoked
CbsFinish == CbsFinishWith(getAudioFingerprint(host), 0)

\* computeBrowserSignals ended by an exception: a source threw, or an awaited
\* promise was rejected
CbsThrow ==
  /\ mq # <<>> /\ Head(mq) = Job("cbs2")
  /\ emeP.st = "rejected" \/ AudioThrows(host)
  /\ cbs' = [cbs EXCEPT !.pc = "threw"]
  /\ calls' = IF emeP.st = "rejected" THEN calls
              ELSE [calls EXCEPT !.math = @ + 1, !.audio = @ + 1]
  /\ signalsPromise' =
       [st |-> "rejected",
        value |-> IF emeP.st = "rejected" THEN emeP.value ELSE AudioError,
        waiters |-> <<>>]
  /\ mq' = Tail(mq) \o GetJobs(signalsPromise.waiters)
  /\ UNCHANGED <<host, pcUser, agentDebug, gpuP, emeP, gets, console, settled,
                 thunkCalls, hashVars,
                 utilVars>>

(***************************************************************************)
(* Agent.get(options)                                                       *)
(***************************************************************************)

\* get() up to  await signalsPromise : a settled promise queues the
\* continuation at once, a pending one keeps it as a reaction; st is the
\* state the call is noted in
GetCallAs(opt, callsAfter, st) ==
  /\ pcUser = "hasAgent"
  /\ Len(gets) < MaxGets
  /\ gets' = Append(gets, [opt |-> opt, st |-> st, result |-> NoResult,
                           error |-> Undef])
  /\ IF signalsPromise.st \in {"fulfilled", "rejected"}
       THEN /\ mq' = Append(mq, GetJob(Len(gets) + 1))
            /\ UNCHANGED signalsPromise
       ELSE /\ signalsPromise' =
                 [signalsPromise EXCEPT !.waiters = Append(@, Len(gets) + 1)]
            /\ UNCHANGED mq
  /\ calls' = callsAfter
  /\ UNCHANGED <<host, pcUser, agentDebug, cbs, gpuP, emeP, console, settled,
                 thunkCalls, hashVars,
                 utilVars>>

GetCallWith(opt, callsAfter) == GetCallAs(opt, callsAfter, "pending")

\* a get() that runs the sources again
GetCallReprobing(opt) ==
  GetCallWith(opt, [calls EXCEPT !.cbs = @ + 1, !.navigator = @ + 1,
                                 !.basics = @ + 1, !.extensions = @ + 1,
                                 !.webgpu = @ + 1])

GetCall(opt) == GetCallWith(opt, calls)

\* if (debug || options?.debug)
DebugOn(debug, opt) == IsTruthy(debug) \/ IsTruthy(opt)

\* get() after  await signalsPromise , on the bag it got
GetContWith(i, signals) ==
  /\ mq # <<>> /\ Head(mq) = GetJob(i)
  /\ signalsPromise.st = "fulfilled"
  /\ LET r == computeVisitorId(signals)
     IN  gets' = [gets EXCEPT ![i].st = "resolved",
                              ![i].result = [visitorId |-> r.visitorId,
                                             anchor |-> r.anchor,
                                             signals |-> signals,
                                             version |-> Version]]
  /\ console' = IF DebugOn(agentDebug, gets[i].opt) THEN Append(console, i)
                ELSE console
  /\ settled' = Append(settled, i)
  /\ mq' = Tail(mq)
  /\ thunkCalls' = thunkCalls + ThunksInvoked(signals)
  /\ UNCHANGED <<host, pcUser, agentDebug, cbs, gpuP, emeP, signalsPromise, calls,
                 hashVars, utilVars>>

\* a get() that reads the host again, and finds another user agent
GetContReprobing(i) ==
  GetContWith(i, [signalsPromise.value EXCEPT !.userAgent = Str(<<48 + i>>)])

\* a get() that blanks the user agent of the bag unless debug is on
GetContRedacting(i) ==
  GetContWith(i, IF DebugOn(agentDebug, gets[i].opt) THEN signalsPromise.value
                 ELSE [signalsPromise.value EXCEPT !.userAgent = Str(<<>>)])

GetCont(i) == GetContWith(i, signalsPromise.value)

\* get() after  await signalsPromise  of a rejected promise: the await
\* throws, and the promise of get() is rejected with error
GetRejectWith(i, error) ==
  /\ mq # <<>> /\ Head(mq) = GetJob(i)
  /\ signalsPromise.st = "rejected"
  /\ gets' = [gets EXCEPT ![i].st = "rejected", ![i].error = error]
  /\ settled' = Append(settled, i)
  /\ mq' = Tail(mq)
  /\ UNCHANGED <<host, pcUser, agentDebug, cbs, gpuP, emeP, signalsPromise, calls,
                 console, thunkCalls, hashVars,
                 utilVars>>

\* a get() that wraps what the await threw in an error of its own
GetRejectWrapping(i) == GetRejectWith(i, [t |-> "error", v |-> "wrapped"])

\* the await throws what the signals promise was rejected with
GetReject(i) == GetRejectWith(i, signalsPromise.value)

\* the steps of the collection round
Round ==
  \/ GpuHostSettle
  \/ GpuCont
  \/ CbsAfterGpu
  \/ EmeHostSettle
  \/ EmeCont
  \/ CbsFinish
  \/ CbsThrow

\* the jobs the event loop runs on its own
Jobs ==
  \/ LoadCont
  \/ Round
  \/ \E i \in 1..MaxGets : GetCont(i)
  \/ \E i \in 1..MaxGets : GetReject(i)

Next ==
  \/ \E d \in DebugOptions : Load(d)
  \/ \E o \in DebugOptions : GetCall(o)
  \/ Jobs

Spec == Init /\ [][Next]_vars

\* the event loop runs every job that is ready, and a host promise that
\* settles at all settles in the end
FairSpec == Spec /\ WF_vars(Jobs)

(***************************************************************************)
(* The agent, each get() call noted as "waiting" until it settles when it  *)
(* found the signals promise pending and became one of its reactions       *)
(***************************************************************************)

GetCallNoting(opt) ==
  GetCallAs(opt, calls,
            IF signalsPromise.st \in {"fulfilled", "rejected"} THEN "pending"
            ELSE "waiting")

OrderNext ==
  \/ \E d \in DebugOptions : Load(d)
  \/ \E o \in DebugOptions : GetCallNoting(o)
  \/ Jobs

OrderSpec == Init /\ [][OrderNext]_vars

(***************************************************************************)
(* The collection round alone, on every host: load() and the round, no get *)
(***************************************************************************)

CollectInit == host \in AllHosts /\ AgentInit /\ HashIdle /\ UtilIdle

CollectNext ==
  \/ \E d \in DebugOptions : Load(d)
  \/ LoadCont
  \/ Round

CollectSpec == CollectInit /\ [][CollectNext]_vars

(***************************************************************************)
(* The agent with a caller that writes to what get() gave it.  get()       *)
(* returns the object the signals promise was fulfilled with, not a copy   *)
(* and not frozen: result.signals of every get() and the value every later *)
(* get() awaits are one object.                                            *)
(***************************************************************************)

ShareHosts ==
  {h \in Hosts : h.nav = "full" /\ h.gpu = "adapter" /\ h.rmksa = "resolve"
                 /\ h.doc = "allows"}

ShareInit == host \in ShareHosts /\ AgentInit /\ HashIdle /\ UtilIdle

\* result.signals.hardwareConcurrency = 1
WrittenBag(bag) == [bag EXCEPT !.hardwareConcurrency = Num(1)]

\* the caller writes to the signals of a result it holds, once
CallerWrites ==
  /\ \E i \in 1..Len(gets) : gets[i].st = "resolved"
  /\ signalsPromise.value.hardwareConcurrency # Num(1)
  /\ signalsPromise' = [signalsPromise EXCEPT !.value = WrittenBag(@)]
  /\ gets' = [i \in 1..Len(gets) |->
                IF gets[i].st = "resolved"
                  THEN [gets[i] EXCEPT !.result.signals = WrittenBag(@)]
                  ELSE gets[i]]
  /\ UNCHANGED <<host, pcUser, agentDebug, cbs, gpuP, emeP, mq, calls, console,
                 settled, thunkCalls, hashVars,
                 utilVars>>

ShareNext ==
  \/ Next
  \/ CallerWrites

ShareSpec == ShareInit /\ [][ShareNext]_vars

(***************************************************************************)
(* canonicalize and stableHash as pure functions, applied to two inputs    *)
(***************************************************************************)

\* the host when every global is absent and every source answers unknown
UnknownHost ==
  [nav |-> "absent", gpu |-> "none", rmksa |-> "none", doc |-> "absent",
   win |-> "absent", basics |-> "sentinel", ext |-> "sentinel", audio |-> "undefined"]

K_a == <<97>>          \* "a"
K_b == <<98>>          \* "b"
K_c == <<99>>          \* "c"
K_d == <<100>>         \* "d"
K_x == <<120>>         \* "x"
K_y == <<121>>         \* "y"
K_9 == <<57>>          \* "9"
K_10 == <<49, 48>>     \* "10"
S_null == <<110, 117, 108, 108>>   \* "null"
S_quoted == <<34, 120, 34>>        \* "\"x\"", the JSON text of the string "x"
S_hello == <<104, 101, 108, 108, 111>>          \* "hello"
S_emac8w == <<101, 109, 97, 99, 56, 119>>       \* "emac8w": h1 ends as 0
S_hv2l4n == <<104, 118, 50, 108, 52, 110>>      \* "hv2l4n": h2 ends as 0
S_h0bkz3 == <<104, 48, 98, 107, 122, 51>>       \* "h0bkz3": h1 = 0, h2 = 0x0af3a1cc

\* the sequence s without its i-th element
Remove(s, i) == SubSeq(s, 1, i - 1) \o SubSeq(s, i + 1, Len(s))

RECURSIVE Perms(_)
\* every order of the elements of the sequence s
Perms(s) ==
  IF Len(s) = 0 THEN {<<>>}
  ELSE UNION {{<<s[i]>> \o r : r \in Perms(Remove(s, i))} : i \in 1..Len(s)}

RECURSIVE KeyOrders(_), EachReordered(_)
\* the sequences that hold, place by place, a reordering of the values of vals
EachReordered(vals) ==
  IF Len(vals) = 0 THEN {<<>>}
  ELSE {<<x>> \o r : x \in KeyOrders(vals[1]), r \in EachReordered(Tail(vals))}

\* the values that differ from v only in the insertion order of object keys,
\* at any depth; arrays keep the order of their elements
KeyOrders(v) ==
  CASE v.t = "arr" -> {Arr(a) : a \in EachReordered(v.v)}
    [] v.t = "obj" ->
         LET n == Len(v.v)
             subs == EachReordered([i \in 1..n |-> v.v[i].v])
         IN  {Obj(q) : q \in UNION {Perms([i \in 1..n |-> P(v.v[i].k, sub[i])]) :
                                       sub \in subs}}
    [] OTHER -> {v}

\* { b: 2, a: 1 }
FlatObject == Obj(<< P(K_b, Num(2)), P(K_a, Num(1)) >>)

\* { b: { d: true, c: null }, a: [ { y: 'x', x: 1 }, 2 ], 10: 1, 9: 2 }
NestedObject ==
  Obj(<< P(K_b, Obj(<< P(K_d, Bool(TRUE)), P(K_c, Null) >>)),
         P(K_a, Arr(<< Obj(<< P(K_y, Str(K_x)), P(K_x, Num(1)) >>), Num(2) >>)),
         P(K_10, Num(1)),
         P(K_9, Num(2)) >>)

\* [ { b: 1, a: { d: 1, c: undefined } }, 'x' ]
ArrayOfObjects ==
  Arr(<< Obj(<< P(K_b, Num(1)),
                P(K_a, Obj(<< P(K_d, Num(1)), P(K_c, Undef) >>)) >>),
         Str(K_x) >>)

\* a value, then the same value with its keys inserted in another order
KeyOrderPairs ==
  {<<v, w>> : v \in {FlatObject, ArrayOfObjects}, w \in KeyOrders(ArrayOfObjects) \cup KeyOrders(FlatObject)}
    \cup {<<NestedObject, w>> : w \in KeyOrders(NestedObject)}

\* strings and structured values: a string, the JSON text of that string,
\* an object whose toJSON() returns that string (a Date and its ISO string),
\* numbers, null, undefined, a function, arrays and objects
MixedInputs ==
  {Str(K_x), Str(S_quoted), WithToJSON(K_x), Str(<<>>), Num(1), Str(<<49>>),
   Null, Str(S_null), NaN, Undef, Fn, Bool(TRUE),
   Arr(<<Undef>>), Arr(<<Null>>), Arr(<<>>), Obj(<<>>),
   Obj(<< P(K_a, Undef) >>), Obj(<< P(K_a, WithToJSON(K_x)) >>),
   Obj(<< P(K_a, Str(K_x)) >>)}

\* strings whose lanes end as 0, with leading zero nibbles, and with the top
\* bit set (negative as signed 32-bit integers: 0x96ae8b7c of "x")
LaneStrings == {S_emac8w, S_hv2l4n, S_h0bkz3, S_hello, K_x, <<>>}

S_Y6 == <<34, 89, 54, 34>>                      \* "\"Y6\""
S_apostrophe == <<34, 39, 34>>                  \* "\"'\""
S_abc == <<34, 97, 98, 99, 34>>                 \* "\"abc\""
S_objA1 == <<123, 34, 97, 34, 58, 49, 125>>     \* "{\"a\":1}"

\* canonical strings, each with the places of the characters inside its
\* string literal: any unit written there that JSON does not escape gives a
\* canonical string again
AvalancheBases ==
  {[s |-> S_Y6, at |-> {2, 3}], [s |-> S_apostrophe, at |-> {2}],
   [s |-> S_quoted, at |-> {2}], [s |-> S_abc, at |-> {2, 3, 4}],
   [s |-> S_objA1, at |-> {3}]}

\* "1", "2", "a", "b", "槀", "섢"
AvalancheUnits == {49, 50, 97, 98, 27072, 49442}

\* a canonical string, then the same string with one character replaced
AvalanchePairs ==
  {p \in UNION {{<<Str(b.s), Str([b.s EXCEPT ![i] = c])>> :
                   i \in b.at, c \in AvalancheUnits} : b \in AvalancheBases} :
     p[1] # p[2]}

HashPairs ==
  KeyOrderPairs \cup (MixedInputs \X MixedInputs)
    \cup {<<Str(a), Str(b)>> : a, b \in LaneStrings}
    \cup AvalanchePairs

HashInit ==
  /\ host = UnknownHost
  /\ AgentInit
  /\ hashIn \in HashPairs
  /\ hashOut = NoHash
  /\ UtilIdle

\* canonicalize(a), canonicalize(b)
Canonicalize ==
  /\ hashOut.ca = NotYet
  /\ hashOut' = [hashOut EXCEPT !.ca = canonicalize(hashIn[1]),
                                !.cb = canonicalize(hashIn[2])]
  /\ UNCHANGED <<agentVars, hashIn, utilVars>>

\* stableHash(a), stableHash(b)
StableHash ==
  /\ hashOut.ha = NotYet
  /\ hashOut' = [hashOut EXCEPT !.ha = stableHash(hashIn[1]),
                                !.hb = stableHash(hashIn[2])]
  /\ UNCHANGED <<agentVars, hashIn, utilVars>>

HashNext == Canonicalize \/ StableHash

HashSpec == HashInit /\ [][HashNext]_vars

(***************************************************************************)
(* normalizeString as a pure function, applied once and then to its result *)
(***************************************************************************)

\* the longest input string
MaxNormLen == 3

\* tab, space, ideographic space, "A", "a", "\u00C9"
NormUnits == {9, 32, 12288, 65, 97, 201}

RECURSIVE StringsUpTo(_)
\* the strings of at most n code units of NormUnits
StringsUpTo(n) ==
  IF n = 0 THEN {<<>>}
  ELSE LET shorter == StringsUpTo(n - 1)
       IN  shorter \cup {Append(s, c) : s \in shorter, c \in NormUnits}

\* string | null | undefined
NormInputs == {Null, Undef} \cup {Str(s) : s \in StringsUpTo(MaxNormLen)}

NormInit ==
  /\ host = UnknownHost
  /\ AgentInit
  /\ hashIn \in {<<v, Undef>> : v \in NormInputs}
  /\ hashOut = NoHash
  /\ UtilIdle

\* normalizeString(input)
Normalize ==
  /\ hashOut.n1 = Pending
  /\ hashOut' = [hashOut EXCEPT !.n1 = normalizeString(hashIn[1])]
  /\ UNCHANGED <<agentVars, hashIn, utilVars>>

\* normalizeString(normalizeString(input))
NormalizeAgain ==
  /\ hashOut.n1 # Pending
  /\ hashOut.n2 = Pending
  /\ hashOut' = [hashOut EXCEPT !.n2 = normalizeString(hashOut.n1)]
  /\ UNCHANGED <<agentVars, hashIn, utilVars>>

NormNext == Normalize \/ NormalizeAgain

NormSpec == NormInit /\ [][NormNext]_vars

(***************************************************************************)
(* getPerformanceTiming on its own, one iteration of its loop at a step,   *)
(* on every sequence of readings of performance.now()                      *)
(***************************************************************************)

\* how many iterations the loop makes (50000 in the code)
PerfIterations == 4

\* what performance.now() answers, in thousandths of a millisecond
PerfTimes == {0, 200, 700, 1000, 2500, 2600}

\* a call of performance.now() that throws
Thrown == -1

\* window.performance.now: not there, there, or there and able to throw
PerfHosts == {"absent", "works", "throws"}

\* what a call of performance.now() can give on such a host
Readings(now) == IF now = "throws" THEN PerfTimes \cup {Thrown} ELSE PerfTimes

\* a loop body that keeps the last difference above min as max
PerfStepWidening(prev, curr, min, max) ==
  IF prev < curr
    THEN LET diff == curr - prev
         IN  IF diff > min THEN <<min, diff>>
             ELSE IF diff < min THEN <<diff, min>> ELSE <<min, max>>
    ELSE <<min, max>>

\* the body of the loop, on the readings prev and curr: the new <<min, max>>
PerfStep(prev, curr, min, max) ==
  IF prev < curr
    THEN LET diff == curr - prev
         IN  IF diff > min THEN <<min, IF diff < max THEN diff ELSE max>>
             ELSE IF diff < min THEN <<diff, min>> ELSE <<min, max>>
    ELSE <<min, max>>

\* the smallest positive difference of two consecutive readings so far (0:
\* none yet), with the readings prev and curr
SmallestWith(smallest, prev, curr) ==
  IF prev < curr /\ (smallest = 0 \/ curr - prev < smallest)
    THEN curr - prev ELSE smallest

PerfInit ==
  /\ host = UnknownHost
  /\ AgentInit
  /\ HashIdle
  /\ perf \in {[PerfIdle EXCEPT !.now = n] : n \in PerfHosts}
  /\ aia = AiaIdle
  /\ mwb = MwbIdle

\* getPerformanceTiming() up to its loop: undefined without performance.now,
\* else the first reading t
PerfCall(t) ==
  /\ perf.pc = "idle"
  /\ perf' = IF perf.now = "absent"
               THEN [perf EXCEPT !.pc = "done", !.result = Undef]
             ELSE IF t = Thrown
               THEN [perf EXCEPT !.pc = "done", !.result = Undef, !.threw = TRUE]
             ELSE [perf EXCEPT !.pc = "loop", !.min = OneMs, !.max = OneMs,
                               !.prev = t, !.curr = t]
  /\ UNCHANGED <<agentVars, hashVars, aia, mwb>>

\* one iteration of the loop, performance.now() answering t
PerfIter(t) ==
  /\ perf.pc = "loop"
  /\ perf.i < PerfIterations
  /\ perf' = IF t = Thrown
               THEN [perf EXCEPT !.pc = "done", !.result = Undef, !.threw = TRUE]
             ELSE LET r == PerfStep(perf.curr, t, perf.min, perf.max)
                  IN  [perf EXCEPT !.prev = perf.curr, !.curr = t,
                                   !.min = r[1], !.max = r[2], !.i = @ + 1,
                                   !.smallest = SmallestWith(@, perf.curr, t),
                                   !.sorted = @ /\ perf.curr <= t]
  /\ UNCHANGED <<agentVars, hashVars, aia, mwb>>

\* return { precision: min, baseline: max }
PerfReturn ==
  /\ perf.pc = "loop"
  /\ perf.i = PerfIterations
  /\ perf' = [perf EXCEPT !.pc = "done",
                          !.result = Obj(<< P(K_precision, Num(perf.min)),
                                            P(K_baseline, Num(perf.max)) >>)]
  /\ UNCHANGED <<agentVars, hashVars, aia, mwb>>

PerfNext ==
  \/ \E t \in Readings(perf.now) : PerfCall(t)
  \/ \E t \in Readings(perf.now) : PerfIter(t)
  \/ PerfReturn

PerfSpec == PerfInit /\ [][PerfNext]_vars

(***************************************************************************)
(* awaitIfAsync(action, callback).                                         *)
(*   act   what action does: returns a value ("value"), throws ("throw"),  *)
(*         or returns a promise that is "fulfilled" or "rejected" with v,  *)
(*         settled already when action returns or settled later            *)
(*   cb    whether callback "returns" or "throws"                          *)
(*   pst   the state of the promise then() was called on                   *)
(*   log   the invocations of callback: its two arguments, and whether it  *)
(*         ran inside the call of awaitIfAsync (sync)                      *)
(***************************************************************************)

\* what action returns, throws, or its promise is settled with; none has a
\* then method
AiaValues == {Undef, Num(0), Num(7), Str(K_x), Obj(<<>>)}

AiaActions ==
  [kind : {"value", "throw"}, v : AiaValues, settled : {FALSE}]
    \cup [kind : {"fulfilled", "rejected"}, v : AiaValues, settled : BOOLEAN]

\* what a throwing callback throws
CallbackError == [t |-> "error", v |-> "callback"]

\* isPromise(returnedValue)
IsPromise(act) == act.kind \in {"fulfilled", "rejected"}

Invocation(ok, arg, sync) == [ok |-> ok, arg |-> arg, sync |-> sync]

AiaInit ==
  /\ host = UnknownHost
  /\ AgentInit
  /\ HashIdle
  /\ perf = PerfIdle
  /\ aia \in {[AiaIdle EXCEPT !.act = a, !.cb = c] :
                a \in AiaActions, c \in {"returns", "throws"}}
  /\ mwb = MwbIdle

\* an awaitIfAsync that awaits whatever action does:
\* Promise.resolve().then(action).then(..., ...)
AwaitIfAsyncAwaiting ==
  /\ aia.pc = "idle"
  /\ IF IsPromise(aia.act) /\ ~aia.act.settled
       THEN /\ aia' = [aia EXCEPT !.pc = "returned", !.pst = "pending"]
            /\ UNCHANGED mq
       ELSE /\ aia' = [aia EXCEPT !.pc = "returned",
                                  !.pst = IF aia.act.kind \in {"value", "fulfilled"}
                                            THEN "fulfilled" ELSE "rejected"]
            /\ mq' = Append(mq, Job("aia"))
  /\ UNCHANGED <<host, pcUser, agentDebug, cbs, gpuP, emeP, signalsPromise, gets,
                 calls, console, settled, thunkCalls, hashVars, perf, mwb>>

\* the call awaitIfAsync(action, callback), up to its return: action is
\* called; a promise gets the two reactions; a value goes to callback at
\* once, inside the try; the catch gives what was thrown to callback, which
\* may throw out of awaitIfAsync
AwaitIfAsync ==
  /\ aia.pc = "idle"
  /\ CASE aia.act.kind = "throw" ->
            /\ aia' = [aia EXCEPT
                         !.pc = IF aia.cb = "throws" THEN "threw" ELSE "returned",
                         !.log = <<Invocation(FALSE, aia.act.v, TRUE)>>]
            /\ UNCHANGED mq
       [] aia.act.kind = "value" ->
            /\ aia' = IF aia.cb = "throws"
                        THEN [aia EXCEPT
                                !.pc = "threw",
                                !.log = <<Invocation(TRUE, aia.act.v, TRUE),
                                          Invocation(FALSE, CallbackError, TRUE)>>]
                        ELSE [aia EXCEPT
                                !.pc = "returned",
                                !.log = <<Invocation(TRUE, aia.act.v, TRUE)>>]
            /\ UNCHANGED mq
       [] OTHER ->
            IF aia.act.settled
              THEN /\ aia' = [aia EXCEPT !.pc = "returned", !.pst = aia.act.kind]
                   /\ mq' = Append(mq, Job("aia"))
              ELSE /\ aia' = [aia EXCEPT !.pc = "returned", !.pst = "pending"]
                   /\ UNCHANGED mq
  /\ UNCHANGED <<host, pcUser, agentDebug, cbs, gpuP, emeP, signalsPromise, gets,
                 calls, console, settled, thunkCalls, hashVars, perf, mwb>>

\* the promise action returned is settled, in a task of its own
AiaSettle ==
  /\ aia.pst = "pending"
  /\ mq = <<>>
  /\ aia' = [aia EXCEPT !.pst = aia.act.kind]
  /\ mq' = <<Job("aia")>>
  /\ UNCHANGED <<host, pcUser, agentDebug, cbs, gpuP, emeP, signalsPromise, gets,
                 calls, console, settled, thunkCalls, hashVars, perf, mwb>>

\* the reaction of then(): callback(true, result) or callback(false, error);
\* what callback throws rejects the promise then() returned, which nobody
\* holds
AiaReaction ==
  /\ mq # <<>> /\ Head(mq) = Job("aia")
  /\ aia' = [aia EXCEPT
               !.log = Append(@, Invocation(aia.pst = "fulfilled", aia.act.v, FALSE))]
  /\ mq' = Tail(mq)
  /\ UNCHANGED <<host, pcUser, agentDebug, cbs, gpuP, emeP, signalsPromise, gets,
                 calls, console, settled, thunkCalls, hashVars, perf, mwb>>

AiaNext ==
  \/ AwaitIfAsync
  \/ AiaSettle
  \/ AiaReaction

AiaSpec == AiaInit /\ [][AiaNext]_vars

(***************************************************************************)
(* mapWithBreaks(items, callback, loopReleaseInterval), one item at a step; *)
(* between two items nothing else runs unless the loop has released the    *)
(* event loop.                                                              *)
(*   items     the array it was given, as it is now                        *)
(*   given     the elements the array had at the call                      *)
(*   i         the index of the next item, counted from 1                  *)
(*   clock     Date.now()                                                  *)
(*   calls     the invocations of callback: item and index                 *)
(*   releases  the releases of the event loop: after which item, and how   *)
(*             long after lastLoopReleaseTime                              *)
(***************************************************************************)

\* the longest array
MaxItems == 3

ItemValues == {1, 2}

RECURSIVE ItemsUpTo(_)
\* the arrays of at most n items
ItemsUpTo(n) ==
  IF n = 0 THEN {<<>>}
  ELSE LET shorter == ItemsUpTo(n - 1)
       IN  shorter \cup {Append(a, x) : a \in shorter, x \in ItemValues}

\* loopReleaseInterval: the default, and 0
Intervals == {16, 0}

\* the milliseconds a callback takes
CallbackTimes == {0, 8, 16}

\* the milliseconds another task takes
OtherTimes == {16}

\* callback(item, index): what it returns tells its arguments
Callback(item, index) == <<item, index>>

\* an element of Array(n) that was never assigned
Hole == <<>>

\* a test that releases after every item
ShouldReleaseAlways(now, lastLoopReleaseTime, loopReleaseInterval) == TRUE

\* now >= lastLoopReleaseTime + loopReleaseInterval
ShouldRelease(now, lastLoopReleaseTime, loopReleaseInterval) ==
  now >= lastLoopReleaseTime + loopReleaseInterval

MwbInit ==
  /\ host = UnknownHost
  /\ AgentInit
  /\ HashIdle
  /\ perf = PerfIdle
  /\ aia = AiaIdle
  /\ mwb = MwbIdle

\* the call, up to the loop: results = Array(items.length),
\* lastLoopReleaseTime = Date.now()
MapWithBreaks(items, loopReleaseInterval) ==
  /\ mwb.pc = "idle"
  /\ mwb' = [mwb EXCEPT !.pc = "loop", !.items = items, !.given = items,
                        !.interval = loopReleaseInterval, !.i = 1,
                        !.results = [n \in 1..Len(items) |-> Hole],
                        !.last = mwb.clock]
  /\ UNCHANGED <<agentVars, hashVars, perf, aia>>

\* one turn of the loop: callback runs and takes dt, its result is stored,
\* and the loop releases the event loop when it is time
MwbItem(dt) ==
  /\ mwb.pc = "loop"
  /\ mwb.i <= Len(mwb.items)
  /\ LET i == mwb.i
         result == Callback(mwb.items[i], i - 1)
         now == mwb.clock + dt
         release == ShouldRelease(now, mwb.last, mwb.interval)
     IN  mwb' = [mwb EXCEPT
                   !.results = IF i <= Len(@) THEN [@ EXCEPT ![i] = result]
                               ELSE Append(@, result),
                   !.calls = Append(@, <<mwb.items[i], i - 1>>),
                   !.clock = now,
                   !.i = i + 1,
                   !.last = IF release THEN now ELSE @,
                   !.pc = IF release THEN "released" ELSE "loop",
                   !.releases =
                      IF release
                        THEN Append(@, [after |-> i, elapsed |-> now - mwb.last])
                        ELSE @,
                   !.others = 0]
  /\ UNCHANGED <<agentVars, hashVars, perf, aia>>

\* the message of releaseEventLoop() arrives: the loop goes on
MwbResume ==
  /\ mwb.pc = "released"
  /\ mwb' = [mwb EXCEPT !.pc = "loop"]
  /\ UNCHANGED <<agentVars, hashVars, perf, aia>>

\* i < items.length fails: return results
MwbReturn ==
  /\ mwb.pc = "loop"
  /\ mwb.i > Len(mwb.items)
  /\ mwb' = [mwb EXCEPT !.pc = "done"]
  /\ UNCHANGED <<agentVars, hashVars, perf, aia>>

\* another task runs while the loop has released the event loop
OtherTaskRuns(dt) ==
  /\ mwb.pc = "released"
  /\ mwb.others = 0
  /\ mwb' = [mwb EXCEPT !.clock = @ + dt, !.others = 1]
  /\ UNCHANGED <<agentVars, hashVars, perf, aia>>

\* another task, or the caller after the call returned, takes the last
\* element off the array it gave: items.pop()
OtherTaskPops ==
  /\ mwb.pc = "released"
  /\ ~mwb.touched
  /\ Len(mwb.items) > 0
  /\ mwb' = [mwb EXCEPT !.items = SubSeq(@, 1, Len(@) - 1), !.touched = TRUE]
  /\ UNCHANGED <<agentVars, hashVars, perf, aia>>

MwbNext ==
  \/ \E items \in ItemsUpTo(MaxItems), interval \in Intervals :
        MapWithBreaks(items, interval)
  \/ \E dt \in CallbackTimes : MwbItem(dt)
  \/ MwbResume
  \/ MwbReturn
  \/ \E dt \in OtherTimes : OtherTaskRuns(dt)
  \/ OtherTaskPops

MwbSpec == MwbInit /\ [][MwbNext]_vars

(***************************************************************************)
(* Properties                                                               *)
(***************************************************************************)

\* the signal sources and host reads of one collection round
Sources ==
  {"navigator", "basics", "extensions", "webgpu", "eme", "math", "audio", "timing"}

InQueue(j) == \E n \in 1..Len(mq) : mq[n] = j

Resolved(i) == i <= Len(gets) /\ gets[i].st = "resolved"

IsLowerHex(c) == c \in 48..57 \/ c \in 97..102
IsHex16(s) == Len(s) = 16 /\ \A n \in 1..16 : IsLowerHex(s[n])

\* a host whose sources keep their contract: none throws, and the promises
\* the host hands out settle, fulfilled or rejected
Conforming(h) == h.rmksa # "never" /\ h.audio # "throw"

\* a bag in which every source answered with its unknown value
AllUnknown(signals) ==
  /\ signals.userAgent = Str(<<>>)
  /\ signals.hardwareConcurrency = Undef
  /\ signals.deviceMemory = Undef
  /\ signals.webgl = Undef
  /\ signals.webgExtensions = Undef
  /\ signals.webgpu = NotSupported
  /\ signals.eme = EmeUnknown
  /\ signals.performanceTiming = Undef
  /\ signals.audioFingerprint = Undef

C2_GetsAgree ==
  \A i, j \in 1..Len(gets) :
     gets[i].st = "resolved" /\ gets[j].st = "resolved"
       => gets[i].result = gets[j].result

C2_Witness ==
  /\ Resolved(1) /\ Resolved(2)
  /\ gets[1].opt # gets[2].opt
  /\ gets[1].result.visitorId # NoId
  /\ gets[1].result.anchor.t = "obj"

C4_GetAlwaysResolves ==
  /\ [](Conforming(host) => \A i \in 1..Len(gets) : gets[i].st # "rejected")
  /\ []<>(Conforming(host) => \A i \in 1..Len(gets) : gets[i].st = "resolved")

C4_Witness ==
  /\ host.gpu = "reject" /\ host.doc = "denies"
  /\ Resolved(1)
  /\ gets[1].result.signals.webgpu = NotSupported
  /\ gets[1].result.signals.eme = EmeUnknown

\* C5: when requestMediaKeySystemAccess has been called and never settles,
\* the collection round still completes, with the eme signal unknown.
C5_EmeHangStillCompletes ==
  (host.rmksa = "never" /\ emeP.host = "pending")
    ~> (signalsPromise.st = "fulfilled" /\ signalsPromise.value.eme = EmeUnknown)

\* C6: all signal sources are started together: once the WebGPU probe is
\* started, the EME, math, audio and timing probes are started too, whether
\* or not the WebGPU probe has settled.
C6_SourcesStartedTogether ==
  calls.webgpu = 1 =>
    calls.eme = 1 /\ calls.math = 1 /\ calls.audio = 1 /\ calls.timing = 1

C8_UnknownStillIdentified ==
  /\ [](\A i \in 1..Len(gets) :
          /\ (host = UnknownHost => gets[i].st # "rejected")
          /\ (gets[i].st = "resolved" /\ AllUnknown(gets[i].result.signals)
                => IsHex16(gets[i].result.visitorId)))
  /\ []<>(host = UnknownHost => \A i \in 1..Len(gets) : gets[i].st = "resolved")

C8_Witness ==
  /\ host = UnknownHost
  /\ Resolved(1)
  /\ AllUnknown(gets[1].result.signals)
  /\ IsHex16(gets[1].result.visitorId)

\* C9: two values that differ only in the insertion order of object keys, at
\* any depth and inside arrays, have the same canonical string and the same
\* digest.
C9_KeyOrderIndependent ==
  hashIn[2] \in KeyOrders(hashIn[1]) =>
    /\ (hashOut.ca # NotYet => hashOut.ca = hashOut.cb)
    /\ (hashOut.ha # NotYet => hashOut.ha = hashOut.hb)

C9_Witness ==
  /\ hashIn[1] = NestedObject
  /\ hashIn[2] \in KeyOrders(NestedObject)
  /\ hashIn[2].v[1].k # K_b
  /\ GetProp(hashIn[2], K_a) # GetProp(NestedObject, K_a)
  /\ GetProp(hashIn[2], K_b) # GetProp(NestedObject, K_b)
  /\ hashOut.ca # NotYet /\ hashOut.ca = hashOut.cb
  /\ hashOut.ha # NotYet /\ hashOut.ha = hashOut.hb /\ IsHex16(hashOut.ha)

\* C10, as stated: two inputs of stableHash, strings or structured values in
\* any mix, that have the same canonical string have the same digest.
C10_SameCanonicalSameHash ==
  (hashOut.ca # NotYet /\ hashOut.ha # NotYet /\ hashOut.ca = hashOut.cb)
    => hashOut.ha = hashOut.hb

\* C10, amended: two inputs of stableHash that are both strings or both not
\* strings, and whose canonical strings are the same string, have the same
\* digest.
C10_SameKindSameCanonicalSameHash ==
  /\ hashOut.ca # NotYet /\ hashOut.ha # NotYet
  /\ (hashIn[1].t = "str") = (hashIn[2].t = "str")
  /\ hashOut.ca = hashOut.cb /\ hashOut.ca # NoString
  => hashOut.ha = hashOut.hb

C10_Witness ==
  /\ hashIn = <<NaN, Null>>
  /\ hashOut.ca = S_null /\ hashOut.cb = S_null
  /\ hashOut.ha # NotYet /\ hashOut.ha = hashOut.hb /\ IsHex16(hashOut.ha)

\* the value of one lower-case hexadecimal digit
DigitValue(c) == IF c <= 57 THEN c - 48 ELSE c - 87

\* the 32-bit word that eight hexadecimal digits denote
HexWord(s) ==
  << 4096 * DigitValue(s[1]) + 256 * DigitValue(s[2]) + 16 * DigitValue(s[3])
       + DigitValue(s[4]),
     4096 * DigitValue(s[5]) + 256 * DigitValue(s[6]) + 16 * DigitValue(s[7])
       + DigitValue(s[8]) >>

Zeros8 == <<48, 48, 48, 48, 48, 48, 48, 48>>

\* C11: for an input string the digest is 16 characters, each in 0-9a-f, and
\* its two halves are the two lanes as unsigned 32-bit values, each padded
\* with zeros to 8 digits: also a lane that is 0, one with leading zero
\* nibbles and one with the top bit set.
C11_StringDigestIs16Hex ==
  \A k \in 1..2 :
     (hashIn[k].t = "str" /\ hashOut.ha # NotYet) =>
       LET digest == IF k = 1 THEN hashOut.ha ELSE hashOut.hb
           lanes == HashLanes(hashIn[k].v)
       IN  /\ IsHex16(digest)
           /\ HexWord(SubSeq(digest, 1, 8)) = lanes[1]
           /\ HexWord(SubSeq(digest, 9, 16)) = lanes[2]

\* "h0bkz3" has a lane that is 0 and a lane with a leading zero nibble, "x" a
\* lane with the top bit set
C11_Witness ==
  /\ hashIn = <<Str(S_h0bkz3), Str(K_x)>>
  /\ hashOut.ha # NotYet
  /\ SubSeq(hashOut.ha, 1, 8) = Zeros8
  /\ hashOut.ha[9] = 48 /\ hashOut.ha[10] # 48
  /\ HashLanes(K_x)[2][1] >= 32768
  /\ IsHex16(hashOut.ha) /\ IsHex16(hashOut.hb)

\* C12: stableHash is total: for every input, also undefined and a function,
\* it returns a string of 16 hexadecimal digits and does not throw.
C12_StableHashTotal ==
  hashOut.ha # NotYet => IsHex16(hashOut.ha) /\ IsHex16(hashOut.hb)

\* '9595c9df90075148', the digest the doc comment of stableHash gives for 'hello'
DocHelloDigest == <<57, 53, 57, 53, 99, 57, 100, 102, 57, 48, 48, 55, 53, 49, 52, 56>>

\* C13: stableHash('hello') is '9595c9df90075148'.
C13_HelloDigest ==
  (hashIn[1] = Str(S_hello) /\ hashOut.ha # NotYet) => hashOut.ha = DocHelloDigest

\* t is s without the white space at its two ends, in lower case
TrimmedLowerOf(s, t) ==
  /\ \A k \in 1..Len(t) : ~(t[k] \in 65..90) /\ ~(t[k] \in 192..222 /\ t[k] # 215)
  /\ \E i, j \in 1..Len(s) :
       /\ i <= j
       /\ ~IsWhiteSpace(s[i]) /\ ~IsWhiteSpace(s[j])
       /\ \A k \in 1..Len(s) : (k < i \/ k > j) => IsWhiteSpace(s[k])
       /\ Len(t) = j - i + 1
       /\ \A k \in 1..Len(t) : t[k] = LowerUnit(s[i + k - 1])

\* C14: normalizeString returns undefined exactly when its input is null,
\* undefined, empty or white space only; otherwise it returns the input
\* without the white space at its ends and in lower case; and applied to its
\* own result it returns that result.
C14_NormalizeString ==
  /\ hashOut.n1 # Pending =>
       /\ (hashOut.n1 = Undef) =
            (hashIn[1].t # "str"
               \/ \A k \in 1..Len(hashIn[1].v) : IsWhiteSpace(hashIn[1].v[k]))
       /\ (hashOut.n1 # Undef =>
             hashOut.n1.t = "str" /\ TrimmedLowerOf(hashIn[1].v, hashOut.n1.v))
  /\ hashOut.n2 # Pending => hashOut.n2 = hashOut.n1

C14_Witness ==
  /\ hashIn[1] = Str(<<32, 201, 12288>>)
  /\ hashOut.n1 = Str(<<233>>)
  /\ hashOut.n2 = Str(<<233>>)

\* C15: the collection round never invokes the lazy audio thunk, so it cannot
\* wait for it: every invocation of the thunk belongs to a get() that has
\* continued, the bag of a host whose audio source returns a thunk holds that
\* function, and on such a host the round, once started, completes (when the
\* key-system promise settles), whatever the thunk would do when invoked.
C15_RoundLeavesThunkAlone ==
  /\ [](thunkCalls <= Len(settled))
  /\ []((signalsPromise.st = "fulfilled" /\ host.audio = "thunk")
          => signalsPromise.value.audioFingerprint = Fn)
  /\ []<>((host.audio = "thunk" /\ host.rmksa # "never" /\ pcUser # "start")
            => signalsPromise.st = "fulfilled")

C15_Witness ==
  /\ host.audio = "thunk"
  /\ signalsPromise.st = "fulfilled"
  /\ signalsPromise.value.audioFingerprint = Fn
  /\ calls.audio = 1
  /\ thunkCalls = 0
  /\ Len(gets) = 1 /\ gets[1].st = "pending"

\* C16: a get() whose bag holds a lazy audio thunk that resolves to n resolves
\* with the anchor and the visitorId of the same bag with n in the place of
\* the thunk.
C16_ThunkBagSameAsNumberBag ==
  \A i \in 1..Len(gets) :
     (gets[i].st = "resolved" /\ gets[i].result.signals.audioFingerprint.t = "fn") =>
       LET materialized ==
             computeVisitorId([gets[i].result.signals EXCEPT
                                 !.audioFingerprint = ThunkResult(host)])
       IN  /\ gets[i].result.anchor = materialized.anchor
           /\ gets[i].result.visitorId = materialized.visitorId

\* C17: when the permissions policy denies encrypted-media, or the window
\* says the context is not secure, requestMediaKeySystemAccess is never
\* invoked and getEmeInfo, once called, has resolved with {}.
C17_EmeGatesBeforeProbe ==
  (host.doc = "denies" \/ host.win = "insecure") =>
    /\ calls.rmksa = 0
    /\ emeP.host = "none"
    /\ (calls.eme = 1 => emeP.st = "fulfilled" /\ emeP.value = EmeUnknown)

C17_Witness ==
  /\ host.win = "insecure" /\ host.doc = "allows"
  /\ host.nav = "full" /\ host.rmksa = "resolve"
  /\ calls.eme = 1 /\ calls.rmksa = 0
  /\ signalsPromise.st = "fulfilled"
  /\ signalsPromise.value.eme = EmeUnknown

\* C18: getEmeInfo never rejects, and it resolves with widevineSupported true
\* when requestMediaKeySystemAccess is fulfilled, false when it reports the
\* key system as not supported, and {} in every other case: a gate closed, no
\* such function, any other fault.
C18_EmeBooleanOnlyWhenDefinitive ==
  /\ emeP.st # "rejected"
  /\ (emeP.st = "fulfilled" =>
        emeP.value =
          CASE emeP.host = "settled" /\ host.rmksa = "resolve" -> Widevine(TRUE)
            [] emeP.host = "settled" /\ host.rmksa = "reject"  -> Widevine(FALSE)
            [] OTHER -> EmeUnknown)

\* C19: getWebGpuInfo never rejects, and without navigator, without
\* navigator.gpu, and when requestAdapter() is rejected or resolves to null,
\* it resolves with { supported: false } and nothing else.
C19_NoAdapterMeansUnsupported ==
  /\ gpuP.st # "rejected"
  /\ ((gpuP.st = "fulfilled" /\ host.gpu \in {"none", "null", "reject"})
        => gpuP.value = NotSupported)

\* the bag of the completed collection round of a host
RoundBag(h) ==
  MakeSignals(getNavigatorSafe(h), getWebGlBasics(h), getWebGlExtensions(h),
              IF WebGpuRequests(h) THEN WebGpuAfter(h) ELSE NotSupported,
              IF EmeRequests(h) THEN EmeAfter(h) ELSE EmeUnknown,
              getMathFingerprint, getAudioFingerprint(h), getPerformanceTiming(h))

\* C20: the value a get() resolves with is decided by the completed round
\* alone: its signals are the bag of the round, its anchor and visitorId
\* those computed from that bag, its version the library's, whatever debug
\* option load() and this get() were given; and the get() calls that print
\* the dump are resolved like the others.
C20_DebugIsSideChannel ==
  /\ \A i \in 1..Len(gets) :
       gets[i].st = "resolved" =>
         /\ gets[i].result.signals = RoundBag(host)
         /\ gets[i].result.anchor = VisitorIdOf(RoundBag(host)).anchor
         /\ gets[i].result.visitorId = VisitorIdOf(RoundBag(host)).visitorId
         /\ gets[i].result.version = Version
  /\ \A n \in 1..Len(console) : gets[console[n]].st = "resolved"

C20_Witness ==
  /\ agentDebug = Bool(FALSE)
  /\ Resolved(1) /\ Resolved(2)
  /\ gets[1].opt = Bool(TRUE) /\ gets[2].opt = Undef
  /\ console = <<1>>
  /\ gets[1].result = gets[2].result
  /\ gets[1].result.signals.userAgent = Str(V_userAgent)
  /\ IsHex16(gets[1].result.visitorId)

\* C21: the per-call debug option of get() overrides the debug option given
\* to load(): a resolved get() has printed the dump exactly when its own
\* option says so, if it was given one (true or false), and exactly when the
\* option of load() says so, if it was given none.
C21_PerCallDebugDecides ==
  \A i \in 1..Len(gets) :
    Resolved(i) =>
      ((\E n \in 1..Len(console) : console[n] = i)
         <=> IF gets[i].opt # Undef THEN IsTruthy(gets[i].opt)
             ELSE IsTruthy(agentDebug))

\* C22: once the collection round has completed the signal bag is never
\* modified: the value of the signals promise stays the bag the round built,
\* whatever the agent and the callers that hold the signals of a result do,
\* and every get(), however late, is resolved with the identifier of that bag.
C22_BagNeverModified ==
  /\ signalsPromise.st = "fulfilled" => signalsPromise.value = RoundBag(host)
  /\ \A i \in 1..Len(gets) :
       Resolved(i) =>
         gets[i].result.visitorId = VisitorIdOf(RoundBag(host)).visitorId

\* the strings a and b have the same length and differ in one character
OneUnitApart(a, b) ==
  /\ Len(a) = Len(b)
  /\ Cardinality({i \in 1..Len(a) : a[i] # b[i]}) = 1

\* in how many of their 16 hex digits two digests differ
DigitsApart(x, y) == Cardinality({i \in 1..16 : x[i] # y[i]})

\* C23: the digests of two canonical strings that differ in one character
\* differ in at least 4 of their 16 hex digits (25%).
C23_Avalanche ==
  (/\ hashOut.ha # NotYet
   /\ hashIn[1].t = "str" /\ hashIn[2].t = "str"
   /\ OneUnitApart(hashIn[1].v, hashIn[2].v))
    => DigitsApart(hashOut.ha, hashOut.hb) * 4 >= 16

\* "Y6" and "섢6", whose digests are the two closest found: e9174fc7445d3d5c
\* and e947ef1749dd3d50 differ in 6 digits
C23_Witness ==
  /\ hashIn = <<Str(S_Y6), Str([S_Y6 EXCEPT ![2] = 49442])>>
  /\ hashOut.ha # NotYet
  /\ DigitsApart(hashOut.ha, hashOut.hb) = 6

\* C24: getPerformanceTiming returns undefined when performance.now is not
\* there or throws; otherwise, on readings that never decrease, the precision
\* it returns is the smallest positive difference between two consecutive
\* readings.
C24_PrecisionIsSmallestDifference ==
  perf.pc = "done" =>
    /\ (perf.now = "absent" \/ perf.threw) => perf.result = Undef
    /\ (perf.now # "absent" /\ ~perf.threw /\ perf.sorted /\ perf.smallest > 0)
         => GetProp(perf.result, K_precision) = Num(perf.smallest)

C25_SyncStaysSync ==
  aia.pc # "idle" =>
    /\ aia.act.kind = "value" =>
         /\ mq = <<>>
         /\ aia.log # <<>>
         /\ aia.log[1] = Invocation(TRUE, aia.act.v, TRUE)
    /\ aia.act.kind = "throw" =>
         /\ mq = <<>>
         /\ aia.log = <<Invocation(FALSE, aia.act.v, TRUE)>>
    /\ IsPromise(aia.act) =>
         /\ aia.pc = "returned"
         /\ (aia.pst = "pending" \/ InQueue(Job("aia"))) => aia.log = <<>>
         /\ (aia.pst # "pending" /\ mq = <<>>) =>
              aia.log = <<Invocation(aia.act.kind = "fulfilled", aia.act.v, FALSE)>>

\* a promise that was pending when action returned and was rejected later:
\* callback(false, error) has run, after awaitIfAsync returned
C25_Witness ==
  /\ aia.pc = "returned"
  /\ aia.act.kind = "rejected" /\ ~aia.act.settled
  /\ aia.log = <<Invocation(FALSE, aia.act.v, FALSE)>>

\* C27: every call of awaitIfAsync invokes callback exactly once: never
\* twice, and once when the call has returned and the promise, if action
\* returned one, is settled and its reaction has run; whatever action does
\* and also when callback throws.
C27_CallbackExactlyOnce ==
  /\ Len(aia.log) <= 1
  /\ (aia.pc # "idle" /\ aia.pst # "pending" /\ mq = <<>>) => Len(aia.log) = 1

\* callback has been invoked on the given items in ascending index order,
\* once each so far, and a finished call has invoked it on all of them and
\* holds results[i] = callback(items[i], i) for every given item
MappedInOrder ==
  /\ Len(mwb.calls) <= Len(mwb.given)
  /\ \A n \in 1..Len(mwb.calls) : mwb.calls[n] = <<mwb.given[n], n - 1>>
  /\ mwb.pc = "done" =>
       /\ Len(mwb.calls) = Len(mwb.given)
       /\ mwb.results = [n \in 1..Len(mwb.given) |-> Callback(mwb.given[n], n - 1)]

\* every release of the event loop came loopReleaseInterval or more after
\* the release before it (the first one: after the call)
ReleasedWhenDue ==
  \A n \in 1..Len(mwb.releases) : mwb.releases[n].elapsed >= mwb.interval

\* C26: mapWithBreaks invokes callback exactly once per item in ascending
\* index order and resolves with results[i] = callback(items[i], i) for all
\* the items, whatever other tasks do while it has released the event loop;
\* and it releases the event loop only loopReleaseInterval or more after the
\* previous release.
C26_MapsEveryItemOnce == MappedInOrder /\ ReleasedWhenDue

\* C26, amended: the same, as long as no other task has changed the array
\* since the call.
C26_MapsEveryItemOnceUntouched ==
  /\ ~mwb.touched => MappedInOrder
  /\ ReleasedWhenDue

\* three items mapped with a release after the second, 16 ms after the
\* call, and one after the third, 32 ms later: another task ran in between
C26_Witness ==
  /\ mwb.pc = "done"
  /\ ~mwb.touched
  /\ Len(mwb.given) = 3
  /\ mwb.interval = 16
  /\ mwb.releases = <<[after |-> 2, elapsed |-> 16], [after |-> 3, elapsed |-> 32]>>
  /\ mwb.results = <<Callback(mwb.given[1], 0), Callback(mwb.given[2], 1),
                     Callback(mwb.given[3], 2)>>

\* C28: a source that throws during collection never makes load() reject:
\* the promise of load() is fulfilled with the Agent (the caller's
\* continuation is queued until it has the Agent), the signals promise is
\* never fulfilled and is rejected with what the source threw once the round
\* has ended, no get() is resolved, every get() that has settled is rejected
\* with that same error, none is left pending once the queue is drained,
\* and the round is never started again.
C28_ThrowingSourceRejectsGets ==
  AudioThrows(host) =>
    /\ pcUser = "loading" => InQueue(Job("load"))
    /\ signalsPromise.st # "fulfilled"
    /\ cbs.pc = "threw" =>
         signalsPromise.st = "rejected" /\ signalsPromise.value = AudioError
    /\ \A i \in 1..Len(gets) :
         /\ gets[i].st # "resolved"
         /\ gets[i].st = "rejected" => gets[i].error = AudioError
         /\ (signalsPromise.st = "rejected" /\ mq = <<>>) => gets[i].st = "rejected"
    /\ calls.cbs <= 1

\* the round has thrown and two get() calls are rejected with the error of
\* the audio source
C28_Witness ==
  /\ AudioThrows(host)
  /\ pcUser = "hasAgent"
  /\ cbs.pc = "threw"
  /\ Len(gets) = 2
  /\ gets[1].st = "rejected" /\ gets[2].st = "rejected"
  /\ gets[1].error = AudioError /\ gets[2].error = AudioError
  /\ calls.cbs = 1

\* C29: no get() is resolved before the collection round of its Agent has
\* completed; the get() calls made while the round was pending are resolved
\* after it, in the order in which they were called: they settle in call
\* order, and once the round has completed and the queue is drained all of
\* them are resolved.
C29_GetsResolveAfterRoundInOrder ==
  /\ \A i \in 1..Len(gets) :
       Resolved(i) => signalsPromise.st = "fulfilled" /\ cbs.pc = "done"
  /\ signalsPromise.st \in {"none", "pending"} => settled = <<>>
  /\ \A m, n \in 1..Len(settled) : m < n => settled[m] < settled[n]
  /\ (signalsPromise.st = "fulfilled" /\ mq = <<>>) =>
       \A i \in 1..Len(gets) : Resolved(i)

\* two get() calls made while the round was pending: the round has
\* completed, the first is resolved, and the second, still waiting on the
\* promise it found pending, is the next job
C29_Witness ==
  /\ Len(gets) = 2
  /\ cbs.pc = "done"
  /\ Resolved(1)
  /\ settled = <<1>>
  /\ gets[2].st = "waiting"
  /\ mq = <<GetJob(2)>>

=============================================================================
